---- MODULE Spec2Model ----
(***************************************************************************)
(* Model of app/actions/remote/command.ts: executeCommand (with its        *)
(* private helpers executeAppCommand and filterEmDashForCommand),          *)
(* handleGotoLocation, fetchCommands and fetchSuggestions.                 *)
(*                                                                         *)
(* Every public operation is an async function.  One action of the model   *)
(* is the code that runs between two suspension points (await): the call   *)
(* runs the synchronous prefix up to the first await, and each later       *)
(* action is the resumption with the awaited collaborator's outcome.       *)
(* Strings that the code inspects (the command message) are sequences of   *)
(* one-character strings; every external call is appended to the log       *)
(* `calls` with its argument.                                              *)
(***************************************************************************)
EXTENDS Integers, Sequences, FiniteSets, TLC

VARIABLES
    hasOperator,  \* DatabaseManager.serverDatabases[serverUrl]?.operator is defined
    hasClient,    \* NetworkManager.getClient(serverUrl) does not throw
    triggerId,    \* trigger id recorded by the server's integrations manager
    op,           \* the public operation invoked ("idle" before the call)
    pc,           \* position of executeCommand / executeAppCommand / fetch*
    result,       \* what the invoked executeCommand / fetch* settles with
    message,      \* executeCommand's message argument
    args,         \* CommandArgs assembled at lines 45-50
    appsEnabled,  \* result of AppsManager.isAppsEnabled ("unset", "yes", "no")
    isApp,        \* whether the parser recognizes the message ("unset", "yes", "no")
    calls,        \* log of the calls made to collaborators, in order
    hcaller,      \* who started handleGotoLocation: "none", "top", "appCommand"
    hpc,          \* position of handleGotoLocation
    hresult,      \* what handleGotoLocation settles with
    location,     \* handleGotoLocation's location argument
    match,        \* result of matchDeepLink (NoMatchYet before it ran)
    userFound,    \* outcome of the user query ("unset", "yes", "no")
    data,         \* outcome of client.executeCommand (NoData before)
    callResp      \* the AppCallResponse doAppSubmit answered (NoResponse before)

vars == <<hasOperator, hasClient, triggerId, op, pc, result, message, args,
          appsEnabled, isApp, calls, hcaller, hpc, hresult, location, match,
          userFound, data, callResp>>

(***************************************************************************)
(* Bounds and input alphabets                                              *)
(***************************************************************************)
MaxRest == 3

EmDash == "U+2014"

serverUrl == "https://s1"

RestChars == {" ", "x", EmDash, "\t"}

CommandHeads == { <<"/", "c", "o", "d", "e">>,
                  <<"/", "C", "O", "D", "E">>,
                  <<"/", "a", "w", "a", "y">> }

RECURSIVE SeqsUpTo(_, _)
SeqsUpTo(S, n) ==
    IF n = 0 THEN { <<>> }
    ELSE LET shorter == SeqsUpTo(S, n - 1)
         IN  shorter \cup { Append(s, c) : s \in shorter, c \in S }

Messages == { h \o t : h \in CommandHeads, t \in SeqsUpTo(RestChars, MaxRest) }

RootIds == {"", "root1"}

ChannelIdArg == "channel1"

Locations == {"link1", "link2"}

KnownServers == {"https://s1", "https://s2"}

LinkServers == {"", "https://s1", "https://s2", "https://s9"}

(***************************************************************************)
(* JavaScript string primitives used by the normalizer                     *)
(***************************************************************************)
IsWhitespace(c) == c \in {" ", "\t"}

LowerOf(c) ==
    CASE c = "C" -> "c"
      [] c = "O" -> "o"
      [] c = "D" -> "d"
      [] c = "E" -> "e"
      [] OTHER   -> c

toLowerCase(s) == [i \in 1..Len(s) |-> LowerOf(s[i])]

\* String.prototype.indexOf: 0-based index of the first occurrence, or -1
indexOf(s, c) ==
    IF \E i \in 1..Len(s) : s[i] = c
    THEN (CHOOSE i \in 1..Len(s) : s[i] = c /\ \A j \in 1..(i - 1) : s[j] # c) - 1
    ELSE -1

\* String.prototype.substring(a, b): 0-based, b exclusive
substring(s, a, b) == SubSeq(s, a + 1, b)

RECURSIVE trimEnd(_)
trimEnd(s) ==
    IF s = <<>> THEN s
    ELSE IF IsWhitespace(s[Len(s)]) THEN trimEnd(SubSeq(s, 1, Len(s) - 1))
    ELSE s

RECURSIVE trimStart(_)
trimStart(s) ==
    IF s = <<>> THEN s
    ELSE IF IsWhitespace(Head(s)) THEN trimStart(Tail(s))
    ELSE s

trim(s) == trimStart(trimEnd(s))

(***************************************************************************)
(* Input normalizer (lines 60-72 and 134-136)                              *)
(***************************************************************************)
RECURSIVE filterEmDashForCommand(_)
filterEmDashForCommand(command) ==
    IF command = <<>> THEN <<>>
    ELSE (IF Head(command) = EmDash THEN <<"-", "-">> ELSE <<Head(command)>>)
         \o filterEmDashForCommand(Tail(command))

CodeCmd == <<"/", "c", "o", "d", "e">>

\* cmdLength of lines 62-65, for the em-dash filtered message
CmdLength(msg) == IF indexOf(msg, " ") < 0 THEN Len(msg) ELSE indexOf(msg, " ")

ComposeCommandTrimBoth(cmd, rest) == cmd \o <<" ">> \o trim(rest)

\* lines 68-72
ComposeCommand(cmd, rest) ==
    IF cmd = CodeCmd
    THEN cmd \o <<" ">> \o trimEnd(rest)
    ELSE cmd \o <<" ">> \o trim(rest)

\* lines 60-72: the string handed to client.executeCommand
NormalizeCommand(m) ==
    LET msg       == filterEmDashForCommand(m)
        cmdLength == CmdLength(msg)
        cmd       == toLowerCase(substring(msg, 0, cmdLength))
    IN  ComposeCommand(cmd, substring(msg, cmdLength, Len(msg)))

(***************************************************************************)
(* Values                                                                  *)
(***************************************************************************)
Pending == [kind |-> "pending", text |-> <<>>]

\* `${serverUrl} database not found` (lines 32, 141, 173)
DbNotFound(url) == <<url, " database not found">>

\* what NetworkManager.getClient throws, passed on as the error
ClientNotFound(url) == <<"client for ", url, " not found">>

TransportError == <<"transport error">>

Call(fn, arg) == [fn |-> fn, arg |-> arg]

NoArgs == [channel_id |-> "", team_id |-> "", root_id |-> ""]

NoMatchYet == [type |-> "unset", serverUrl |-> "", userName |-> "", channelId |-> ""]

\* results of matchDeepLink: undefined ("none") or {type, data}
Matches ==
    { [type |-> "none", serverUrl |-> "", userName |-> "", channelId |-> ""] }
    \cup { [type |-> t, serverUrl |-> s, userName |-> "", channelId |-> ""] :
             t \in {"Channel", "Permalink", "Plugin"}, s \in LinkServers }
    \cup { [type |-> "DirectMessage", serverUrl |-> s, userName |-> u, channelId |-> ""] :
             s \in LinkServers, u \in {"", "bob"} }
    \cup { [type |-> "GroupMessage", serverUrl |-> s, userName |-> "", channelId |-> c] :
             s \in LinkServers, c \in {"", "gm1"} }

\* AppCallResponse values returned by doAppSubmit as res.data
CallResponses ==
    [type : {"ok", "form", "navigate", "other"},
     text : {"", "hello"},
     form : {"", "form1"},
     navigate_to_url : {""} \cup Locations]

TriggerIds == {"", "trigger1"}

NoData == [status |-> "none", trigger_id |-> ""]

NoResponse == [type |-> "none", text |-> "", form |-> "", navigate_to_url |-> ""]

Init ==
    /\ hasOperator \in BOOLEAN
    /\ hasClient \in BOOLEAN
    /\ triggerId = "trigger0"
    /\ op = "idle"
    /\ pc = "idle"
    /\ result = Pending
    /\ message = <<>>
    /\ args = NoArgs
    /\ appsEnabled = "unset"
    /\ isApp = "unset"
    /\ calls = <<>>
    /\ hcaller = "none"
    /\ hpc = "idle"
    /\ hresult = Pending
    /\ location = ""
    /\ match = NoMatchYet
    /\ userFound = "unset"
    /\ data = NoData
    /\ callResp = NoResponse

hglVars == <<hcaller, hpc, hresult, location, match, userFound>>

\* an awaited promise rejects outside any try block: the async function rejects
Rejected == [kind |-> "rejected", text |-> <<"storage failure">>]

(***************************************************************************)
(* executeCommand, lines 29-86                                             *)
(***************************************************************************)
ExecuteCommandPrefixClientFirst(operator, client) ==
    IF ~client
    THEN [result |-> [kind |-> "error", text |-> ClientNotFound(serverUrl)],
          pc     |-> "done",
          made   |-> << Call("getClient", serverUrl) >>]
    ELSE IF ~operator
    THEN [result |-> [kind |-> "error", text |-> DbNotFound(serverUrl)],
          pc     |-> "done",
          made   |-> << Call("getClient", serverUrl) >>]
    ELSE [result |-> Pending,
          pc     |-> "awaitChannel",
          made   |-> << Call("getClient", serverUrl),
                        Call("getChannelById", ChannelIdArg) >>]

\* lines 30-42: operator check, client lookup, start of the channel lookup;
\* the outcome, the next position and the calls made on the way
ExecuteCommandPrefix(operator, client) ==
    IF ~operator
    THEN [result |-> [kind |-> "error", text |-> DbNotFound(serverUrl)],
          pc     |-> "done",
          made   |-> << >>]
    ELSE IF ~client
    THEN [result |-> [kind |-> "error", text |-> ClientNotFound(serverUrl)],
          pc     |-> "done",
          made   |-> << Call("getClient", serverUrl) >>]
    ELSE [result |-> Pending,
          pc     |-> "awaitChannel",
          made   |-> << Call("getClient", serverUrl),
                        Call("getChannelById", ChannelIdArg) >>]

\* the call of executeCommand, up to its first suspension
CallExecuteCommand ==
    /\ op = "idle"
    /\ \E m \in Messages, r \in RootIds :
         /\ op' = "executeCommand"
         /\ message' = m
         /\ args' = [channel_id |-> ChannelIdArg, team_id |-> "", root_id |-> r]
    /\ LET prefix == ExecuteCommandPrefix(hasOperator, hasClient)
       IN  /\ result' = prefix.result
           /\ pc' = prefix.pc
           /\ calls' = calls \o prefix.made
    /\ UNCHANGED <<hasOperator, hasClient, triggerId, appsEnabled, isApp, data, callResp>>
    /\ UNCHANGED hglVars

\* lines 42-52: channel?.teamId || (await getCurrentTeamId(...))
EC_ChannelLookup ==
    /\ pc = "awaitChannel"
    /\ \E outcome \in {"team", "noteam", "fail"} :
         CASE outcome = "fail" ->
                /\ result' = Rejected
                /\ pc' = "done"
                /\ UNCHANGED <<args, calls>>
           [] outcome = "team" ->
                /\ args' = [args EXCEPT !.team_id = "team1"]
                /\ calls' = Append(calls, Call("isAppsEnabled", serverUrl))
                /\ pc' = "awaitAppsEnabled"
                /\ result' = result
           [] outcome = "noteam" ->
                /\ calls' = Append(calls, Call("getCurrentTeamId", serverUrl))
                /\ pc' = "awaitTeam"
                /\ UNCHANGED <<args, result>>
    /\ UNCHANGED <<hasOperator, hasClient, triggerId, op, message, appsEnabled, isApp,
                   data, callResp>>
    /\ UNCHANGED hglVars

\* lines 43-52: resumption from getCurrentTeamId
EC_CurrentTeam ==
    /\ pc = "awaitTeam"
    /\ \E ok \in BOOLEAN :
         IF ok
         THEN /\ args' = [args EXCEPT !.team_id = "team0"]
              /\ calls' = Append(calls, Call("isAppsEnabled", serverUrl))
              /\ pc' = "awaitAppsEnabled"
              /\ result' = result
         ELSE /\ result' = Rejected
              /\ pc' = "done"
              /\ UNCHANGED <<args, calls>>
    /\ UNCHANGED <<hasOperator, hasClient, triggerId, op, message, appsEnabled, isApp,
                   data, callResp>>
    /\ UNCHANGED hglVars

RoutesToAppIgnoringSwitch(enabled, recognized) == recognized

\* lines 53-55: if (appsEnabled) { ... if (parser.isAppCommand(message)) ...
RoutesToApp(enabled, recognized) == enabled /\ recognized

\* lines 52-76: classification, then either the app pipeline (line 56, up to
\* the await of line 89) or the normalizer and the backend call (line 76)
EC_Classify ==
    /\ pc = "awaitAppsEnabled"
    /\ \E outcome \in {"enabled", "disabled", "fail"}, recognized \in BOOLEAN :
         IF outcome = "fail"
         THEN /\ result' = Rejected
              /\ pc' = "done"
              /\ UNCHANGED <<appsEnabled, isApp, calls>>
         ELSE /\ appsEnabled' = (IF outcome = "enabled" THEN "yes" ELSE "no")
              /\ isApp' = (IF recognized THEN "yes" ELSE "no")
              /\ result' = result
              /\ IF RoutesToApp(outcome = "enabled", recognized)
                 THEN /\ calls' = Append(calls, Call("composeCommandSubmitCall", message))
                      /\ pc' = "awaitCompose"
                 ELSE /\ calls' = Append(calls,
                            Call("client.executeCommand",
                                 [msg |-> NormalizeCommand(message), args |-> args]))
                      /\ pc' = "awaitBackend"
    /\ UNCHANGED <<hasOperator, hasClient, triggerId, op, message, args, data, callResp>>
    /\ UNCHANGED hglVars

HasTriggerIdAlways(response) == TRUE

\* line 81: if (data?.trigger_id)
HasTriggerId(response) == response.trigger_id # ""

\* IntegrationsManager.getManager(serverUrl): the per-server manager, created on demand
ManagerExists(url) == TRUE

\* lines 76-85
EC_Backend ==
    /\ pc = "awaitBackend"
    /\ \E threw \in BOOLEAN, t \in TriggerIds :
         IF threw
         THEN /\ data' = [status |-> "threw", trigger_id |-> ""]
              /\ result' = [kind |-> "error", text |-> TransportError]
              /\ UNCHANGED <<triggerId, calls>>
         ELSE LET response == [status |-> "ok", trigger_id |-> t]
              IN  /\ data' = response
                  /\ result' = [kind |-> "data", text |-> <<>>]
                  /\ IF HasTriggerId(response) /\ ManagerExists(serverUrl)
                     THEN /\ triggerId' = response.trigger_id
                          /\ calls' = Append(calls, Call("setTriggerId", response.trigger_id))
                     ELSE UNCHANGED <<triggerId, calls>>
    /\ pc' = "done"
    /\ UNCHANGED <<hasOperator, hasClient, op, message, args, appsEnabled, isApp, callResp>>
    /\ UNCHANGED hglVars

(***************************************************************************)
(* handleGotoLocation, lines 138-217                                       *)
(***************************************************************************)
\* lines 139-145: the synchronous prefix, run by whoever calls the function;
\* `log` is the caller's call log at the moment of the call
StartHandleGotoLocation(caller, loc, log) ==
    /\ hcaller' = caller
    /\ location' = loc
    /\ UNCHANGED <<match, userFound>>
    /\ IF ~hasOperator
       THEN /\ hresult' = [kind |-> "error", text |-> DbNotFound(serverUrl)]
            /\ hpc' = "done"
            /\ calls' = log
       ELSE /\ hresult' = hresult
            /\ hpc' = "awaitConfig"
            /\ calls' = Append(log, Call("getConfig", serverUrl))

CallHandleGotoLocation ==
    /\ op = "idle"
    /\ op' = "handleGotoLocation"
    /\ \E loc \in Locations : StartHandleGotoLocation("top", loc, calls)
    /\ UNCHANGED <<hasOperator, hasClient, triggerId, pc, result, message, args,
                   appsEnabled, isApp, data, callResp>>

\* DatabaseManager.searchUrl: the registered server url, or undefined ("")
searchUrl(url) == IF url \in KnownServers THEN url ELSE ""

\* lines 147-150
LinkServerUrl(m) ==
    IF m.type # "none" /\ m.serverUrl # "" THEN searchUrl(m.serverUrl) ELSE ""

HandledInAppIfMatched(m, linkServerUrl) == m.type # "none"

\* line 152: if (match && linkServerUrl)
HandledInApp(m, linkServerUrl) == m.type # "none" /\ linkServerUrl # ""

DataTrue == [kind |-> "dataTrue", text |-> <<>>]

DataFalse == [kind |-> "dataFalse", text |-> <<>>]

\* lines 146-216, from the resumption after getConfig to the next await or return
HGL_Config ==
    /\ hpc = "awaitConfig"
    /\ \E ok \in BOOLEAN, m \in Matches :
         IF ~ok
         THEN /\ hresult' = Rejected
              /\ hpc' = "done"
              /\ UNCHANGED <<match, calls>>
         ELSE
           LET linkServerUrl == LinkServerUrl(m)
           IN
           /\ match' = m
           /\ IF HandledInApp(m, linkServerUrl)
              THEN CASE m.type = "Channel" ->
                          /\ calls' = Append(calls, Call("switchToChannelByName", linkServerUrl))
                          /\ hresult' = DataTrue
                          /\ hpc' = "done"
                     [] m.type = "Permalink" ->
                          /\ calls' = Append(calls, Call("showPermalink", linkServerUrl))
                          /\ hresult' = DataTrue
                          /\ hpc' = "done"
                     [] m.type = "DirectMessage" ->
                          IF m.userName = ""
                          THEN /\ calls' = Append(calls, Call("errorUnkownUser", ""))
                               /\ hresult' = DataFalse
                               /\ hpc' = "done"
                          ELSE IF m.serverUrl # serverUrl /\ ~hasOperator
                          THEN /\ calls' = calls
                               /\ hresult' = [kind |-> "error", text |-> DbNotFound(serverUrl)]
                               /\ hpc' = "done"
                          ELSE /\ calls' = Append(calls, Call("queryUsersByUsername", m.userName))
                               /\ hresult' = hresult
                               /\ hpc' = "awaitUser"
                     [] m.type = "GroupMessage" ->
                          IF m.channelId = ""
                          THEN /\ calls' = Append(calls, Call("errorBadChannel", ""))
                               /\ hresult' = DataFalse
                               /\ hpc' = "done"
                          ELSE /\ calls' = Append(calls, Call("switchToChannelById", m.channelId))
                               /\ hresult' = DataTrue
                               /\ hpc' = "done"
                     [] m.type = "Plugin" ->
                          /\ calls' = Append(calls, Call("showModal", location))
                          /\ hresult' = DataTrue
                          /\ hpc' = "done"
              ELSE /\ calls' = Append(calls, Call("tryOpenURL", location))
                   /\ hresult' = DataTrue
                   /\ hpc' = "done"
    /\ UNCHANGED <<hasOperator, hasClient, triggerId, op, pc, result, message, args,
                   appsEnabled, isApp, data, callResp, hcaller, location, userFound>>

\* lines 176-182: resumption from the user query
HGL_UserQuery ==
    /\ hpc = "awaitUser"
    /\ \E outcome \in {"found", "notfound", "fail"} :
         CASE outcome = "fail" ->
                /\ hresult' = Rejected
                /\ hpc' = "done"
                /\ UNCHANGED <<userFound, calls>>
           [] outcome = "notfound" ->
                /\ userFound' = "no"
                /\ calls' = Append(calls, Call("errorUnkownUser", ""))
                /\ hresult' = DataFalse
                /\ hpc' = "done"
           [] outcome = "found" ->
                /\ userFound' = "yes"
                /\ calls' = Append(calls, Call("getTeammateNameDisplay", serverUrl))
                /\ hresult' = hresult
                /\ hpc' = "awaitNameDisplay"
    /\ UNCHANGED <<hasOperator, hasClient, triggerId, op, pc, result, message, args,
                   appsEnabled, isApp, data, callResp, hcaller, location, match>>

\* lines 182-183 and 216: resumption from getTeammateNameDisplay
HGL_NameDisplay ==
    /\ hpc = "awaitNameDisplay"
    /\ \E ok \in BOOLEAN :
         IF ok
         THEN /\ calls' = Append(calls, Call("makeDirectChannel", LinkServerUrl(match)))
              /\ hresult' = DataTrue
         ELSE /\ calls' = calls
              /\ hresult' = Rejected
    /\ hpc' = "done"
    /\ UNCHANGED <<hasOperator, hasClient, triggerId, op, pc, result, message, args,
                   appsEnabled, isApp, data, callResp, hcaller, location, match, userFound>>

(***************************************************************************)
(* executeAppCommand, lines 88-132                                         *)
(***************************************************************************)
\* lines 89-98: resumption from parser.composeCommandSubmitCall
EA_Compose ==
    /\ pc = "awaitCompose"
    /\ \E composed \in BOOLEAN :
         IF composed
         THEN /\ calls' = Append(calls, Call("doAppSubmit", "creq"))
              /\ pc' = "awaitSubmit"
              /\ result' = result
         ELSE /\ result' = [kind |-> "error", text |-> <<"cannot compose call">>]
              /\ pc' = "done"
              /\ calls' = calls
    /\ UNCHANGED <<hasOperator, hasClient, triggerId, op, message, args, appsEnabled,
                   isApp, data, callResp>>
    /\ UNCHANGED hglVars

PostsEphemeralAlways(resp) == TRUE

\* line 110: if (callResp.text)
PostsEphemeral(resp) == resp.text # ""

\* lines 99-105: doAppSubmit answered {error}
EA_SubmitError ==
    /\ pc = "awaitSubmit"
    /\ \E text \in {"", "app failed"} :
         result' = [kind |-> "error",
                    text |-> <<IF text # "" THEN text ELSE "Unknown error.">>]
    /\ pc' = "done"
    /\ UNCHANGED <<hasOperator, hasClient, triggerId, op, message, args, appsEnabled,
                   isApp, calls, data, callResp>>
    /\ UNCHANGED hglVars

\* lines 106-131: doAppSubmit answered {data}; the switch over callResp.type
EA_SubmitData ==
    /\ pc = "awaitSubmit"
    /\ \E resp \in CallResponses :
         /\ callResp' = resp
         /\ CASE resp.type = "ok" ->
                   /\ calls' = IF PostsEphemeral(resp)
                               THEN Append(calls,
                                      Call("postEphemeralCallResponseForCommandArgs",
                                           [text |-> resp.text, args |-> args]))
                               ELSE calls
                   /\ result' = [kind |-> "data", text |-> <<>>]
                   /\ UNCHANGED hglVars
              [] resp.type = "form" ->
                   /\ calls' = IF resp.form # ""
                               THEN Append(calls, Call("showAppForm", resp.form))
                               ELSE calls
                   /\ result' = [kind |-> "data", text |-> <<>>]
                   /\ UNCHANGED hglVars
              [] resp.type = "navigate" ->
                   /\ result' = [kind |-> "data", text |-> <<>>]
                   /\ IF resp.navigate_to_url # ""
                      THEN StartHandleGotoLocation("appCommand", resp.navigate_to_url, calls)
                      ELSE UNCHANGED <<calls, hcaller, hpc, hresult, location, match, userFound>>
              [] OTHER ->
                   /\ result' = [kind |-> "error",
                                 text |-> <<"App response type not supported. Response type: ",
                                            resp.type, ".">>]
                   /\ UNCHANGED calls
                   /\ UNCHANGED hglVars
    /\ pc' = "done"
    /\ UNCHANGED <<hasOperator, hasClient, triggerId, op, message, args, appsEnabled,
                   isApp, data>>

(***************************************************************************)
(* fetchCommands (lines 219-231) and fetchSuggestions (lines 233-246)      *)
(***************************************************************************)
StartFetch(which, fn) ==
    /\ op = "idle"
    /\ op' = which
    /\ IF ~hasClient
       THEN /\ result' = [kind |-> "error", text |-> ClientNotFound(serverUrl)]
            /\ pc' = "done"
            /\ calls' = Append(calls, Call("getClient", serverUrl))
       ELSE /\ result' = result
            /\ pc' = "awaitFetch"
            /\ calls' = calls \o << Call("getClient", serverUrl), Call(fn, "team1") >>
    /\ UNCHANGED <<hasOperator, hasClient, triggerId, message, args, appsEnabled, isApp,
                   data, callResp>>
    /\ UNCHANGED hglVars

CallFetchCommands == StartFetch("fetchCommands", "client.getCommandsList")

CallFetchSuggestions ==
    StartFetch("fetchSuggestions", "client.getCommandAutocompleteSuggestionsList")

FetchReturn(which, kind) ==
    /\ op = which
    /\ pc = "awaitFetch"
    /\ \E threw \in BOOLEAN :
         result' = IF threw THEN [kind |-> "error", text |-> TransportError]
                            ELSE [kind |-> kind, text |-> <<>>]
    /\ pc' = "done"
    /\ UNCHANGED <<hasOperator, hasClient, triggerId, op, message, args, appsEnabled,
                   isApp, calls, data, callResp>>
    /\ UNCHANGED hglVars

\* lines 226-230
FC_Return == FetchReturn("fetchCommands", "commands")

\* lines 241-245
FS_Return == FetchReturn("fetchSuggestions", "suggestions")

Next ==
    \/ CallExecuteCommand
    \/ EC_ChannelLookup
    \/ EC_CurrentTeam
    \/ EC_Classify
    \/ EC_Backend
    \/ EA_Compose
    \/ EA_SubmitError
    \/ EA_SubmitData
    \/ CallHandleGotoLocation
    \/ HGL_Config
    \/ HGL_UserQuery
    \/ HGL_NameDisplay
    \/ CallFetchCommands
    \/ FC_Return
    \/ CallFetchSuggestions
    \/ FS_Return

Spec == Init /\ [][Next]_vars

(***************************************************************************)
(* Properties                                                              *)
(***************************************************************************)
CallsOf(fn) == { i \in 1..Len(calls) : calls[i].fn = fn }

Made(fn) == CallsOf(fn) # {}

NavigationFns == {"switchToChannelByName", "showPermalink", "makeDirectChannel",
                  "switchToChannelById", "showModal"}

Contains(text, token) == \E i \in 1..Len(text) : text[i] = token

\* the command token and the remainder of the em-dash filtered message
CmdOf(m) ==
    toLowerCase(substring(filterEmDashForCommand(m), 0, CmdLength(filterEmDashForCommand(m))))

RestOf(m) ==
    substring(filterEmDashForCommand(m), CmdLength(filterEmDashForCommand(m)),
              Len(filterEmDashForCommand(m)))

TrailingWhitespace(s) == Len(s) - Len(trimEnd(s))

\* C1: classifier exclusivity. When the app subsystem is enabled and its
\* parser recognizes the message, client.executeCommand is never called;
\* when it is disabled or does not recognize the message, neither
\* composeCommandSubmitCall nor doAppSubmit is called.
C1_ClassifierExclusive ==
    /\ (appsEnabled = "yes" /\ isApp = "yes") => ~Made("client.executeCommand")
    /\ (appsEnabled # "yes" \/ isApp # "yes") =>
           (~Made("composeCommandSubmitCall") /\ ~Made("doAppSubmit"))

C1_Witness ==
    /\ pc = "done"
    /\ appsEnabled = "yes"
    /\ isApp = "yes"
    /\ Made("doAppSubmit")
    /\ result.kind = "data"

\* C2: without a database handle for the server, executeCommand and
\* handleGotoLocation return {error} whose text contains the server url, and
\* the invocation makes no call at all to a collaborator (no client lookup,
\* backend call, app submit, navigation or url opening).
C2_NoDatabaseHandle ==
    (~hasOperator /\ op \in {"executeCommand", "handleGotoLocation"}) =>
        /\ calls = <<>>
        /\ op = "executeCommand" =>
               (pc = "done" /\ result.kind = "error" /\ Contains(result.text, serverUrl))
        /\ op = "handleGotoLocation" =>
               (hpc = "done" /\ hresult.kind = "error" /\ Contains(hresult.text, serverUrl))

C2_Witness ==
    /\ ~hasOperator
    /\ hasClient
    /\ op = "executeCommand"
    /\ pc = "done"

\* C3 as claimed: on the non-app path with command token /code, the string
\* sent to the backend keeps the trailing whitespace of the remainder.
C3_TrailingWhitespacePreserved ==
    \A i \in CallsOf("client.executeCommand") :
        (CmdOf(message) = CodeCmd /\ trimEnd(RestOf(message)) # <<>>) =>
            TrailingWhitespace(calls[i].arg.msg) = TrailingWhitespace(RestOf(message))

\* C3 as amended: on the non-app path with command token /code, the string
\* sent to the backend is "/code " followed by the remainder cut after its
\* last non-whitespace character: leading whitespace is kept, trailing
\* whitespace is dropped.
C3_LeadingKeptTrailingDropped ==
    \A i \in CallsOf("client.executeCommand") :
        CmdOf(message) = CodeCmd =>
            LET sent == calls[i].arg.msg
                rest == RestOf(message)
                kept == SubSeq(sent, Len(CodeCmd) + 2, Len(sent))
            IN  /\ Len(sent) >= Len(CodeCmd) + 1
                /\ SubSeq(sent, 1, Len(CodeCmd) + 1) = CodeCmd \o <<" ">>
                /\ Len(kept) <= Len(rest)
                /\ kept = SubSeq(rest, 1, Len(kept))
                /\ \A j \in (Len(kept) + 1)..Len(rest) : IsWhitespace(rest[j])
                /\ kept # <<>> => ~IsWhitespace(kept[Len(kept)])

C3_Witness ==
    /\ pc = "done"
    /\ Made("client.executeCommand")
    /\ CmdOf(message) = CodeCmd
    /\ TrailingWhitespace(RestOf(message)) >= 1
    /\ trimEnd(RestOf(message)) # <<>>
    /\ \E i \in CallsOf("client.executeCommand") :
          TrailingWhitespace(calls[i].arg.msg) = 0

\* C4: whenever the message is forwarded for execution, to the backend
\* executor or to the app pipeline, the forwarded string holds no em-dash.
C4_NoEmDashForwarded ==
    \A i \in 1..Len(calls) :
        /\ calls[i].fn = "client.executeCommand" => ~Contains(calls[i].arg.msg, EmDash)
        /\ calls[i].fn = "composeCommandSubmitCall" => ~Contains(calls[i].arg, EmDash)

\* C5: every public operation resolves with a result object; none rejects,
\* whatever the outcome of the network and storage calls it awaits.
C5_NeverRejects ==
    /\ pc = "done" => result.kind # "rejected"
    /\ (hcaller = "top" /\ hpc = "done") => hresult.kind # "rejected"

\* C6: on an app response of type OK, no ephemeral post is made when the
\* text is empty, exactly one carrying the text and the command args
\* (channel id, root id) when it is not; executeCommand returns {data}, no
\* form is shown and no deep-link resolution is started.
C6_OkResponse ==
    callResp.type = "ok" =>
        LET posts == CallsOf("postEphemeralCallResponseForCommandArgs")
        IN  /\ pc = "done"
            /\ result.kind = "data"
            /\ ~Made("showAppForm")
            /\ hpc = "idle"
            /\ ~Made("getConfig")
            /\ callResp.text = "" => posts = {}
            /\ callResp.text # "" =>
                   /\ Cardinality(posts) = 1
                   /\ \A i \in posts :
                         /\ calls[i].arg.text = callResp.text
                         /\ calls[i].arg.args.channel_id = ChannelIdArg
                         /\ calls[i].arg.args.root_id = args.root_id

C6_Witness ==
    /\ callResp.type = "ok"
    /\ callResp.text # ""
    /\ args.root_id = "root1"
    /\ Made("postEphemeralCallResponseForCommandArgs")

Resolvable(m) == m.type \notin {"unset", "none"} /\ m.serverUrl \in KnownServers

\* C7: with a database handle, once the link is matched handleGotoLocation
\* returns {data: false} exactly for a resolvable DirectMessage link without
\* user name or whose user is not found, and a resolvable GroupMessage link
\* without channel id, opening no channel; in every other case it returns
\* {data: true}.
C7_DataFalseExactly ==
    (hasOperator /\ hpc = "done" /\ match.type # "unset") =>
        LET soft == /\ Resolvable(match)
                    /\ \/ match.type = "DirectMessage"
                          /\ (match.userName = "" \/ userFound = "no")
                       \/ match.type = "GroupMessage" /\ match.channelId = ""
        IN  /\ soft => (hresult = DataFalse /\ \A f \in NavigationFns : ~Made(f))
            /\ ~soft => hresult = DataTrue

\* C8: with a database handle, a link that matches no pattern or whose
\* server does not resolve is opened as an external url exactly once and no
\* in-app navigation is invoked; a link that matches and resolves is never
\* opened externally.
C8_ExternalFallback ==
    (hasOperator /\ match.type # "unset") =>
        /\ ~Resolvable(match) =>
              /\ Cardinality(CallsOf("tryOpenURL")) = 1
              /\ \A i \in CallsOf("tryOpenURL") : calls[i].arg = location
              /\ \A f \in NavigationFns : ~Made(f)
              /\ hpc = "done"
        /\ Resolvable(match) => ~Made("tryOpenURL")

C8_Witness ==
    /\ hpc = "done"
    /\ match.type = "Channel"
    /\ match.serverUrl = "https://s9"
    /\ Made("tryOpenURL")

\* C9: the server's recorded trigger id is the response's trigger id once
\* the backend call succeeded with one and executeCommand returned {data};
\* it is the one recorded before the call when the backend call failed, the
\* response carried none, or the message went to the app pipeline.
C9_TriggerIdRecorded ==
    /\ (data.status = "ok" /\ data.trigger_id # "") =>
           (pc = "done" /\ result.kind = "data" /\ triggerId = data.trigger_id)
    /\ ~(data.status = "ok" /\ data.trigger_id # "") => triggerId = "trigger0"

C9_Witness ==
    /\ pc = "done"
    /\ data.status = "ok"
    /\ data.trigger_id = "trigger1"
    /\ triggerId = "trigger1"

\* C10: when executeCommand has resolved, no work it started is pending: a
\* deep-link resolution it started has completed.
C10_NoPendingWork ==
    (op = "executeCommand" /\ pc = "done") => hpc \in {"idle", "done"}

====
